---------------------------- MODULE Spec2Model ----------------------------
(***************************************************************************)
(* A model of the StereoVision toolkit.                                    *)
(*                                                                         *)
(*  - the calibration driver, pystereovisiontoolkit.py: one run of the     *)
(*    script over the four pickle files that persist between runs          *)
(*    (specification SpecCli);                                             *)
(*  - the USB camera live view, VisionToolkit/Camera.py: the capture       *)
(*    thread UsbCamera.run and the GUI thread of UsbCameraWidget, which    *)
(*    share the slot UsbCamera.image (specification SpecCam).              *)
(***************************************************************************)
EXTENDS Naturals, Sequences, FiniteSets

VARIABLES
    \* ---- calibration driver ----
    files,       \* the persisted files: name -> "absent" | "corrupt" | "valid"
    phase,       \* "shell": between two runs; "ended": a run has just ended
    args,        \* the parsed command line of the run that just ended
    env,         \* what the library routines and pickle.dump did in that run
    trace,       \* the loads, calls and dumps of that run, in order
    err,         \* that run ended in an uncaught exception
    before,      \* the persisted files as they were when that run started
    hist,        \* history: the kinds of the successful runs before this one
    \* ---- USB camera live view ----
    running,     \* UsbCamera.running
    capPc,       \* position of the capture thread in UsbCamera.run
    image,       \* UsbCamera.image, the shared slot
    nReads,      \* history: number of camera.read calls
    nCallbacks,  \* history: number of callback invocations
    nUpdates,    \* history: number of UpdateImage executions started
    pending,     \* queued image_received signals (each tagged with the id of
                 \* the frame whose callback emitted it)
    guiPc,       \* position of the GUI thread
    upd,         \* the values read so far by the UpdateImage in progress
    displayed,   \* what the last completed UpdateImage put on the widget
    released,    \* number of camera.release calls
    closeState,  \* "open" | "stopping" | "accepted"
    aliveAtStop, \* history: the capture thread was alive when Stop was called
    slotWritten  \* history: the capture thread wrote the slot between the first
                 \* and the third read of the UpdateImage in progress

cliVars == <<files, phase, args, env, trace, err, before, hist>>
camVars == <<running, capPc, image, nReads, nCallbacks, nUpdates, pending,
             guiPc, upd, displayed, released, closeState, aliveAtStop,
             slotWritten>>
vars == <<cliVars, camVars>>

-----------------------------------------------------------------------------
(***************************************************************************)
(*                        The calibration driver                           *)
(***************************************************************************)

CalFile    == "camera-calibration.pkl"
LeftFile   == "camera-calibration-left.pkl"
RightFile  == "camera-calibration-right.pkl"
StereoFile == "stereo-calibration.pkl"
FileNames  == {CalFile, LeftFile, RightFile, StereoFile}

\* args.mono is None when -mono is not given, else the string given, which
\* may be empty (argparse accepts  -mono '').
NoneVal    == "<None>"
MonoValues == {NoneVal, "", "img/*.png"}

\* Python's truth value of args.mono: None and '' are false.
Truthy(v) == v # NoneVal /\ v # ""

ArgSpace ==
    [live : BOOLEAN, mono : MonoValues, stereo : BOOLEAN, output : BOOLEAN,
     left : BOOLEAN, right : BOOLEAN, undistort : BOOLEAN,
     undistort_stereo : BOOLEAN,
     intPattern : BOOLEAN]   \* -rows and -cols are accepted by int()

\* What the code outside this repository does in one run: whether the library
\* routine returns (or raises), whether pickle.dump completes (or raises).
EnvSpace == [libOk : BOOLEAN, dumpOk : BOOLEAN]

NoArgs == [live |-> FALSE, mono |-> NoneVal, stereo |-> FALSE,
           output |-> FALSE, left |-> FALSE, right |-> FALSE,
           undistort |-> FALSE, undistort_stereo |-> FALSE,
           intPattern |-> TRUE]
NoEnv  == [libOk |-> TRUE, dumpOk |-> TRUE]

\* A run in progress: its trace, the files, and whether an exception is
\* propagating (after which no statement of the script executes).
Event(op, x) == [op |-> op, x |-> x]

\* pattern_size = ( int(args.rows), int(args.cols) )
PatternSize(a, fs) ==
    [trace |-> <<>>, fs |-> fs, exc |-> ~a.intPattern]

\* A mutant of Load: a missing or unreadable file is replaced by a default
\* instead of raising.
LoadOrDefault(r, f) ==
    IF r.exc THEN r
    ELSE [r EXCEPT !.trace = Append(@, Event("load", f))]

\* with open( f, 'rb' ) as input_file : x = pickle.load( input_file )
\* open raises when the file is absent, pickle.load when it holds no pickle.
Load(r, f) ==
    IF r.exc THEN r
    ELSE [r EXCEPT !.trace = Append(@, Event("load", f)),
                   !.exc = (r.fs[f] # "valid")]

\* A call of a routine of Calibration or Viewer; it returns or raises.
Call(r, routine, e) ==
    IF r.exc THEN r
    ELSE [r EXCEPT !.trace = Append(@, Event("call", routine)),
                   !.exc = ~e.libOk]

\* with open( f, 'wb' ) as output_file : pickle.dump( calibration, ... )
\* open creates or truncates the file; the file holds a pickle only when
\* pickle.dump completes.
Dump(r, f, e) ==
    IF r.exc THEN r
    ELSE [r EXCEPT !.trace = Append(@, Event("dump", f)),
                   !.fs = [@ EXCEPT ![f] = IF e.dumpOk THEN "valid"
                                                       ELSE "corrupt"],
                   !.exc = ~e.dumpOk]

\* A mutant of MonoBranch: the three saves are independent ifs.
MonoBranchIfIf(a, e, r) ==
    LET r1 == Call(r, "CameraCalibration", e)
        r2 == IF a.output THEN Dump(r1, CalFile, e) ELSE r1
        r3 == IF a.left THEN Dump(r2, LeftFile, e) ELSE r2
    IN  IF a.right THEN Dump(r3, RightFile, e) ELSE r3

\* elif args.mono :
MonoBranch(a, e, r) ==
    LET r1 == Call(r, "CameraCalibration", e)
    IN  IF a.output THEN Dump(r1, CalFile, e)
        ELSE IF a.left THEN Dump(r1, LeftFile, e)
        ELSE IF a.right THEN Dump(r1, RightFile, e)
        ELSE r1

\* A mutant of StereoBranch: the right camera's calibration is not loaded
\* (the left one is used for both cameras).
StereoBranchLeftOnly(a, e, r) ==
    LET r1 == Load(r, LeftFile)
        r3 == Call(r1, "StereoCameraCalibration", e)
    IN  IF a.output THEN Dump(r3, StereoFile, e) ELSE r3

\* elif args.stereo :
StereoBranch(a, e, r) ==
    LET r1 == Load(r, LeftFile)
        r2 == Load(r1, RightFile)
        r3 == Call(r2, "StereoCameraCalibration", e)
    IN  IF a.output THEN Dump(r3, StereoFile, e) ELSE r3

\* elif args.undistort :
UndistortBranch(a, e, r) ==
    Call(Load(r, CalFile), "UndistortImages", e)

\* elif args.undistort_stereo :
StereoUndistortBranch(a, e, r) ==
    LET r1 == Load(r, LeftFile)
        r2 == Load(r1, RightFile)
        r3 == Load(r2, StereoFile)
    IN  Call(r3, "StereoUndistortImages", e)

\* The script from the pattern setup to its end.
Script(a, e, fs) ==
    LET r == PatternSize(a, fs)
    IN  IF r.exc THEN r
        ELSE IF a.live THEN Call(r, "VmbStereoViewer", e)
        ELSE IF Truthy(a.mono) THEN MonoBranch(a, e, r)
        ELSE IF a.stereo THEN StereoBranch(a, e, r)
        ELSE IF a.undistort THEN UndistortBranch(a, e, r)
        ELSE IF a.undistort_stereo THEN StereoUndistortBranch(a, e, r)
        ELSE r

\* History only: what a run that ended without error was, in the words of
\* the claims: "-mono run with -output", "-mono run with -left (and without
\* -output)", "-mono run with -right (and without -output and -left)",
\* "-stereo run with -output".
RunKind(a, failed) ==
    IF failed \/ a.live THEN {}
    ELSE IF Truthy(a.mono)
         THEN IF a.output THEN {"mono-output"}
              ELSE IF a.left THEN {"mono-left"}
              ELSE IF a.right THEN {"mono-right"}
              ELSE {}
    ELSE IF a.stereo /\ a.output THEN {"stereo-output"}
    ELSE {}

InitCli ==
    /\ files = [f \in FileNames |-> "absent"]
    /\ phase = "shell"
    /\ args = NoArgs
    /\ env = NoEnv
    /\ trace = <<>>
    /\ err = FALSE
    /\ before = files
    /\ hist = {}

\* One invocation of the script with command line a, from parse_args to the
\* end of the process.
Invoke(a, e) ==
    /\ LET r == Script(a, e, files)
       IN  /\ files' = r.fs
           /\ trace' = r.trace
           /\ err' = r.exc
    /\ phase' = "ended"
    /\ args' = a
    /\ env' = e
    /\ before' = files
    /\ UNCHANGED hist
    /\ UNCHANGED camVars

\* The process is gone; only the persisted files remain for the next run.
NextInvocation ==
    /\ phase = "ended"
    /\ phase' = "shell"
    /\ args' = NoArgs
    /\ env' = NoEnv
    /\ trace' = <<>>
    /\ err' = FALSE
    /\ before' = files
    /\ hist' = hist \cup RunKind(args, err)
    /\ UNCHANGED files
    /\ UNCHANGED camVars

\* The script is started from the shell with any command line.
Run ==
    /\ phase = "shell"
    /\ \E a \in ArgSpace, e \in EnvSpace : Invoke(a, e)

NextCli ==
    \/ Run
    \/ NextInvocation


-----------------------------------------------------------------------------
(***************************************************************************)
(*                       The USB camera live view                          *)
(***************************************************************************)

\* Number of camera.read calls explored.
MaxFrames == 3

\* A value of the slot: None, or the frame of the id-th camera.read in the
\* colour order it is in.
None == [id |-> 0, fmt |-> "None"]
Frame(n, fmt) == [id |-> n, fmt |-> fmt]

\* cv2.cvtColor( image, cv2.COLOR_BGR2RGB ): the same frame, channels swapped.
CvtColor(img) == Frame(img.id, IF img.fmt = "BGR" THEN "RGB" ELSE "BGR")

\* The arguments the UpdateImage in progress has evaluated: the signal it
\* handles, the buffer, and the frames of shape[1] and shape[0].
NoUpd == [sig |-> 0, buf |-> None, s1 |-> None, s0 |-> None]

\* After UsbCameraWidget.__init__: the UsbCamera is constructed (image is
\* None), Start has set running and started the thread.
InitCam ==
    /\ running = TRUE
    /\ capPc = "while"
    /\ image = None
    /\ nReads = 0
    /\ nCallbacks = 0
    /\ nUpdates = 0
    /\ pending = <<>>
    /\ guiPc = "idle"
    /\ upd = NoUpd
    /\ displayed = NoUpd
    /\ released = 0
    /\ closeState = "open"
    /\ aliveAtStop = FALSE
    /\ slotWritten = FALSE

CapAlive == capPc \notin {"finished", "dead"}
InUpdReads == guiPc \in {"shape1", "shape0"}

\* while self.running :
RunWhile ==
    /\ capPc = "while"
    /\ capPc' = IF running THEN "read" ELSE "release"
    /\ UNCHANGED cliVars
    /\ UNCHANGED <<running, image, nReads, nCallbacks, nUpdates, pending,
                   guiPc, upd, displayed, released, closeState, aliveAtStop,
                   slotWritten>>

\* A mutant of RunRead: the capture thread waits until the GUI thread has
\* consumed every queued signal.
RunReadWhenConsumed(ok) ==
    /\ capPc = "read"
    /\ nReads < MaxFrames
    /\ pending = <<>>
    /\ guiPc = "idle"
    /\ nReads' = nReads + 1
    /\ image' = IF ok THEN Frame(nReads + 1, "BGR") ELSE None
    /\ slotWritten' = (slotWritten \/ InUpdReads)
    /\ capPc' = "cvt"
    /\ UNCHANGED cliVars
    /\ UNCHANGED <<running, nCallbacks, nUpdates, pending, guiPc, upd,
                   displayed, released, closeState, aliveAtStop>>

\* ok, self.image = self.camera.read()
\* read returns (True, frame), or (False, None) when no frame was grabbed.
RunRead(ok) ==
    /\ capPc = "read"
    /\ nReads < MaxFrames
    /\ nReads' = nReads + 1
    /\ image' = IF ok THEN Frame(nReads + 1, "BGR") ELSE None
    /\ slotWritten' = (slotWritten \/ InUpdReads)
    /\ capPc' = "cvt"
    /\ UNCHANGED cliVars
    /\ UNCHANGED <<running, nCallbacks, nUpdates, pending, guiPc, upd,
                   displayed, released, closeState, aliveAtStop>>

\* self.image = cv2.cvtColor( self.image, cv2.COLOR_BGR2RGB )
\* cvtColor raises on None: the exception ends run, and the thread, there.
RunCvt ==
    /\ capPc = "cvt"
    /\ IF image = None
       THEN /\ capPc' = "dead"
                /\ UNCHANGED <<image, slotWritten>>
       ELSE /\ image' = CvtColor(image)
            /\ slotWritten' = (slotWritten \/ InUpdReads)
            /\ capPc' = "callback"
    /\ UNCHANGED cliVars
    /\ UNCHANGED <<running, nReads, nCallbacks, nUpdates, pending, guiPc,
                   upd, displayed, released, closeState, aliveAtStop>>

\* A mutant of RunCallback: the signal is emitted twice for one frame.
RunCallbackTwice ==
    /\ capPc = "callback"
    /\ pending' = pending \o <<image.id, image.id>>
    /\ nCallbacks' = nCallbacks + 2
    /\ capPc' = "while"
    /\ UNCHANGED cliVars
    /\ UNCHANGED <<running, image, nReads, nUpdates, guiPc, upd, displayed,
                   released, closeState, aliveAtStop, slotWritten>>

\* self.callback(), which is image_received.emit: called from the capture
\* thread, the signal is queued for the GUI thread and emit returns.
RunCallback ==
    /\ capPc = "callback"
    /\ pending' = Append(pending, image.id)
    /\ nCallbacks' = nCallbacks + 1
    /\ capPc' = "while"
    /\ UNCHANGED cliVars
    /\ UNCHANGED <<running, image, nReads, nUpdates, guiPc, upd, displayed,
                   released, closeState, aliveAtStop, slotWritten>>

\* self.camera.release()
RunRelease ==
    /\ capPc = "release"
    /\ released' = released + 1
    /\ capPc' = "finished"
    /\ UNCHANGED cliVars
    /\ UNCHANGED <<running, image, nReads, nCallbacks, nUpdates, pending,
                   guiPc, upd, displayed, closeState, aliveAtStop,
                   slotWritten>>

\* A mutant of UpdateImage_buf: the frame travels with the signal.
UpdateImage_bufOfSignal ==
    /\ guiPc = "idle"
    /\ pending # <<>>
    /\ pending' = Tail(pending)
    /\ nUpdates' = nUpdates + 1
    /\ upd' = [NoUpd EXCEPT !.sig = Head(pending),
                            !.buf = Frame(Head(pending), "RGB")]
    /\ slotWritten' = FALSE
    /\ guiPc' = "shape1"
    /\ UNCHANGED cliVars
    /\ UNCHANGED <<running, capPc, image, nReads, nCallbacks, displayed,
                   released, closeState, aliveAtStop>>

\* UpdateImage, entered for one queued signal; the first argument of QImage,
\* self.camera.image, is evaluated.
UpdateImage_buf ==
    /\ guiPc = "idle"
    /\ pending # <<>>
    /\ pending' = Tail(pending)
    /\ nUpdates' = nUpdates + 1
    /\ upd' = [NoUpd EXCEPT !.sig = Head(pending), !.buf = image]
    /\ slotWritten' = FALSE
    /\ guiPc' = "shape1"
    /\ UNCHANGED cliVars
    /\ UNCHANGED <<running, capPc, image, nReads, nCallbacks, displayed,
                   released, closeState, aliveAtStop>>

\* self.camera.image.shape[1]; None has no shape: the AttributeError ends
\* UpdateImage and the event loop goes on.
UpdateImage_shape1 ==
    /\ guiPc = "shape1"
    /\ IF image = None
       THEN /\ guiPc' = "idle"
            /\ upd' = NoUpd
       ELSE /\ guiPc' = "shape0"
            /\ upd' = [upd EXCEPT !.s1 = image]
    /\ UNCHANGED cliVars
    /\ UNCHANGED <<running, capPc, image, nReads, nCallbacks, nUpdates,
                   pending, displayed, released, closeState, aliveAtStop,
                   slotWritten>>

\* self.camera.image.shape[0]
UpdateImage_shape0 ==
    /\ guiPc = "shape0"
    /\ IF image = None
       THEN /\ guiPc' = "idle"
            /\ upd' = NoUpd
       ELSE /\ guiPc' = "qimage"
            /\ upd' = [upd EXCEPT !.s0 = image]
    /\ UNCHANGED cliVars
    /\ UNCHANGED <<running, capPc, image, nReads, nCallbacks, nUpdates,
                   pending, displayed, released, closeState, aliveAtStop,
                   slotWritten>>

\* QImage( ... ), setPixmap, update: the widget shows the buffer.
UpdateImage_show ==
    /\ guiPc = "qimage"
    /\ displayed' = upd
    /\ upd' = NoUpd
    /\ guiPc' = "idle"
    /\ UNCHANGED cliVars
    /\ UNCHANGED <<running, capPc, image, nReads, nCallbacks, nUpdates,
                   pending, released, closeState, aliveAtStop, slotWritten>>

\* closeEvent up to the join inside UsbCamera.Stop: self.running = False
Stop ==
    /\ guiPc = "idle"
    /\ closeState = "open"
    /\ running' = FALSE
    /\ aliveAtStop' = CapAlive
    /\ closeState' = "stopping"
    /\ guiPc' = "join"
    /\ UNCHANGED cliVars
    /\ UNCHANGED <<capPc, image, nReads, nCallbacks, nUpdates, pending, upd,
                   displayed, released, slotWritten>>

\* self.join() returns once run has ended; then event.accept()
closeEvent_accept ==
    /\ guiPc = "join"
    /\ ~CapAlive
    /\ closeState' = "accepted"
    /\ guiPc' = "idle"
    /\ UNCHANGED cliVars
    /\ UNCHANGED <<running, capPc, image, nReads, nCallbacks, nUpdates,
                   pending, upd, displayed, released, aliveAtStop,
                   slotWritten>>

\* camera.read returns a frame or fails.
Read == \E ok \in BOOLEAN : RunRead(ok)

\* Any step of the capture thread.
Capture == RunWhile \/ Read \/ RunCvt \/ RunCallback \/ RunRelease

\* The capture thread and the GUI thread, interleaved at every access of the
\* shared state.
NextCam ==
    \/ RunWhile
    \/ Read
    \/ RunCvt
    \/ RunCallback
    \/ RunRelease
    \/ UpdateImage_buf
    \/ UpdateImage_shape1
    \/ UpdateImage_shape0
    \/ UpdateImage_show
    \/ Stop
    \/ closeEvent_accept

-----------------------------------------------------------------------------
Init == InitCli /\ InitCam

SpecCli == Init /\ [][NextCli]_vars
SpecCam == Init /\ [][NextCam]_vars


-----------------------------------------------------------------------------
(***************************************************************************)
(*                   Properties of the calibration driver                  *)
(***************************************************************************)

\* What one run did, read off its trace.
Ops(op) == {trace[i].x : i \in {j \in DOMAIN trace : trace[j].op = op}}
Called == Ops("call")
Loaded == Ops("load")
Dumped == Ops("dump")

\* The mode flags in their priority, and the routine of each.
ModeFlags == <<"live", "mono", "stereo", "undistort", "undistort_stereo">>
RoutineOf(m) ==
    CASE m = "live" -> "VmbStereoViewer"
      [] m = "mono" -> "CameraCalibration"
      [] m = "stereo" -> "StereoCameraCalibration"
      [] m = "undistort" -> "UndistortImages"
      [] m = "undistort_stereo" -> "StereoUndistortImages"

\* Flag m is set on command line a; monoSet says whether -mono is.
FlagSet(a, m, monoSet) ==
    CASE m = "live" -> a.live
      [] m = "mono" -> monoSet
      [] m = "stereo" -> a.stereo
      [] m = "undistort" -> a.undistort
      [] m = "undistort_stereo" -> a.undistort_stereo

\* The highest-priority mode flag that is set, "none" when none is.
ModeBy(a, monoSet) ==
    LET set == {i \in DOMAIN ModeFlags : FlagSet(a, ModeFlags[i], monoSet)}
    IN  IF set = {} THEN "none"
        ELSE ModeFlags[CHOOSE i \in set : \A j \in set : i <= j]

\* -mono is set when it is given on the command line.
ModeGiven(a) == ModeBy(a, a.mono # NoneVal)
\* -mono is set when it is given a non-empty argument.
ModeNonEmpty(a) == ModeBy(a, Truthy(a.mono))

\* No routine but that of mode m is called; nothing is touched in no mode.
OnlyRoutineOf(m) ==
    /\ Called \subseteq (IF m = "none" THEN {} ELSE {RoutineOf(m)})
    /\ m = "none" => (trace = <<>> /\ files = before)

\* C1: one run dispatches to at most one mode, chosen by the priority -live,
\* -mono, -stereo, -undistort, -undistort_stereo: only the routine of the
\* highest-priority flag that is set is called, and with no mode flag set no
\* routine is called and no persisted file is read or written.
C1_PriorityDispatch ==
    phase = "ended" => OnlyRoutineOf(ModeGiven(args))

\* The dispatch the code does perform: C1 with -mono counted as set only
\* when its argument is not the empty string; a run that ends without error
\* has called the routine of that mode.
DispatchByTruthValue ==
    phase = "ended" =>
        /\ OnlyRoutineOf(ModeNonEmpty(args))
        /\ (~err /\ ModeNonEmpty(args) # "none") =>
              Called = {RoutineOf(ModeNonEmpty(args))}

\* The file the flags select for saving, if any.
SelectedFile(a) ==
    LET m == ModeNonEmpty(a)
    IN  IF m = "mono"
        THEN IF a.output THEN {CalFile}
             ELSE IF a.left THEN {LeftFile}
             ELSE IF a.right THEN {RightFile}
             ELSE {}
        ELSE IF m = "stereo" /\ a.output THEN {StereoFile}
        ELSE {}

ReadOnlyMode(a) ==
    ModeNonEmpty(a) \in {"live", "undistort", "undistort_stereo"}

\* C2 as stated: one run writes at most one of the four files, and exactly
\* the one its flags select; -live, -undistort and -undistort_stereo leave
\* all four unchanged. (Stated for the runs in which int(), the library
\* routine and pickle.dump all return, where it fails already.)
C2_WritesSelectedFile ==
    (phase = "ended" /\ args.intPattern /\ env.libOk /\ env.dumpOk) =>
        /\ Cardinality(Dumped) <= 1
        /\ Dumped = SelectedFile(args)
        /\ ReadOnlyMode(args) => files = before

\* C2 as amended: one run writes at most one of the four files, once, and
\* never another than the one its flags select; a run that ends without
\* error writes exactly that one, which then holds a pickle; every other file
\* is left as it was, and -live, -undistort and -undistort_stereo leave all
\* four unchanged.
C2_WritesAtMostSelectedFile ==
    phase = "ended" =>
        /\ Cardinality(Dumped) <= 1
        /\ Cardinality({i \in DOMAIN trace : trace[i].op = "dump"}) <= 1
        /\ Dumped \subseteq SelectedFile(args)
        /\ ~err => (Dumped = SelectedFile(args)
                    /\ \A f \in Dumped : files[f] = "valid")
        /\ \A f \in FileNames \ Dumped : files[f] = before[f]
        /\ ReadOnlyMode(args) => files = before

\* A successful -mono run with -left and -right both set saves the left file
\* over a right file left as it was.
C2_Witness ==
    /\ phase = "ended"
    /\ ~err
    /\ Truthy(args.mono) /\ ~args.output /\ args.left /\ args.right
    /\ Dumped = {LeftFile}
    /\ before[LeftFile] = "absent"
    /\ files[LeftFile] = "valid"

\* The input files of a mode.
Required(m) ==
    CASE m = "stereo" -> {LeftFile, RightFile}
      [] m = "undistort" -> {CalFile}
      [] m = "undistort_stereo" -> {LeftFile, RightFile, StereoFile}
      [] OTHER -> {}

\* C8: in -stereo, -undistort and -undistort_stereo modes every input file is
\* loaded, once, before the routine is called and before any file is written;
\* when a required input file is missing the run ends in an error, the
\* routine is never called and none of the four files is created or modified.
C8_LoadFailurePropagates ==
    (phase = "ended"
        /\ ModeNonEmpty(args) \in {"stereo", "undistort", "undistort_stereo"}) =>
        /\ \A i, j \in DOMAIN trace :
              (trace[i].op = "load" /\ trace[j].op # "load") => i < j
        /\ \A i, j \in DOMAIN trace :
              (trace[i] = trace[j] /\ trace[i].op = "load") => i = j
        /\ Loaded \subseteq Required(ModeNonEmpty(args))
        /\ Called # {} => Loaded = Required(ModeNonEmpty(args))
        /\ (\E f \in Required(ModeNonEmpty(args)) : before[f] = "absent") =>
              (err /\ Called = {} /\ Dumped = {} /\ files = before)

\* A -stereo -output run, with the left file present and the right one
\* missing, ends in an error after trying both.
C8_Witness ==
    /\ phase = "ended"
    /\ ModeNonEmpty(args) = "stereo" /\ args.output /\ args.intPattern
    /\ env.libOk /\ env.dumpOk
    /\ before[LeftFile] = "valid" /\ before[RightFile] = "absent"
    /\ Loaded = {LeftFile, RightFile}
    /\ err

\* C9: from no persisted file, StereoCameraCalibration is called only after
\* an earlier successful -mono -left run and an earlier successful -mono
\* -right run, StereoUndistortImages only after, in addition, an earlier
\* successful -stereo -output run, and UndistortImages only after an earlier
\* successful -mono -output run.
C9_CalledOnlyAfter ==
    phase = "ended" =>
        /\ "StereoCameraCalibration" \in Called =>
              {"mono-left", "mono-right"} \subseteq hist
        /\ "StereoUndistortImages" \in Called =>
              {"mono-left", "mono-right", "stereo-output"} \subseteq hist
        /\ "UndistortImages" \in Called => "mono-output" \in hist

\* StereoUndistortImages is called and returns.
C9_Witness ==
    /\ phase = "ended"
    /\ "StereoUndistortImages" \in Called
    /\ ~err

-----------------------------------------------------------------------------
(***************************************************************************)
(*                    Properties of the USB camera view                    *)
(***************************************************************************)

\* C3: the callback is invoked once per frame read, after the read: the
\* callbacks never outnumber the camera.read calls and fall behind by at most
\* the iteration in progress; every queued signal comes from a callback for a
\* frame already read, one per frame; and UpdateImage runs once per signal
\* consumed, so never more often than the callback.
C3_CallbackPerFrame ==
    /\ nCallbacks <= nReads
    /\ nReads <= nCallbacks + 1
    /\ nReads = nCallbacks + 1 => capPc \in {"cvt", "callback", "dead"}
    /\ nUpdates <= nCallbacks
    /\ nUpdates + Len(pending) = nCallbacks
    /\ \A i \in DOMAIN pending : pending[i] \in 1..nReads
    /\ \A i, j \in DOMAIN pending : i < j => pending[i] < pending[j]

\* Two callbacks done, one signal consumed, the third frame just read.
C3_Witness ==
    /\ nReads = 3
    /\ nCallbacks = 2
    /\ nUpdates = 1
    /\ capPc = "callback"

\* C4: no backpressure. Whatever the GUI thread does and however many signals
\* are queued, the capture thread's next step is enabled (up to the number of
\* reads explored); each camera.read replaces the frame in the one slot;
\* and UpdateImage takes its buffer from the slot as it is when it runs, and
\* shows what it took.
C4_NoBackpressure ==
    /\ []((CapAlive /\ ~(capPc = "read" /\ nReads >= MaxFrames))
            => ENABLED Capture)
    /\ [][nReads' # nReads =>
            /\ image' \in {None, Frame(nReads', "BGR")}
            /\ image # None => image' # image]_vars
    /\ [][(guiPc = "idle" /\ guiPc' = "shape1") => upd'.buf = image]_vars
    /\ [][displayed' # displayed => displayed' = upd]_vars

\* UpdateImage has displayed a frame newer than the one whose callback queued
\* the signal it handled, while another signal was waiting.
C4_Witness ==
    /\ displayed.sig # 0
    /\ displayed.buf.id > displayed.sig
    /\ pending # <<>>

\* C5: once closeEvent has called Stop on a running capture thread and the
\* close event is accepted, the capture thread has left its loop and
\* released the camera exactly once.
C5_ReleasedOnceAtAccept ==
    /\ released <= 1
    /\ (closeState = "accepted" /\ aliveAtStop) =>
          (capPc = "finished" /\ released = 1)

ThreeReadsAgree == upd.buf = upd.s1 /\ upd.s1 = upd.s0

\* C6 as stated: the three reads of camera.image inside one UpdateImage all
\* refer to the same frame.
C6_SameFrame ==
    guiPc = "qimage" => ThreeReadsAgree

\* C6 as amended: the capture thread goes on writing the slot after the
\* callback, and the three reads of one UpdateImage refer to the same frame
\* exactly when no write of the slot falls between the first and the third.
C6_SameFrameIffNoWrite ==
    guiPc = "qimage" => (ThreeReadsAgree <=> ~slotWritten)

\* An UpdateImage whose buffer and height come from different frames.
C6_Witness ==
    /\ guiPc = "qimage"
    /\ slotWritten
    /\ upd.buf.id # upd.s0.id

\* C7: every frame UpdateImage displays has been converted to RGB.
C7_DisplaysConverted ==
    displayed.sig # 0 => displayed.buf.fmt = "RGB"

\* C10: UpdateImage never executes while the slot is None.
C10_SlotNotNoneInUpdate ==
    guiPc \in {"shape1", "shape0", "qimage"} => image # None

=============================================================================
